---- MODULE Spec2Model ----
(***************************************************************************)
(* A model of slsk-batchdl-gui/main.py: the command builder, the /run      *)
(* handler with its stream relay, the result parser, the /search handler   *)
(* and the art lookup of one search result.  Each component has its own    *)
(* specification over the variables it uses; the other variables stay at   *)
(* their idle values.                                                       *)
(***************************************************************************)
EXTENDS Integers, Sequences, FiniteSets, TLC

VARIABLES
    \* build_command called on its own
    opts,        \* the keyword arguments of one build_command call
    env,         \* os.environ: SLSK_PATH, SLSK_USER, SLSK_PASS
    command,     \* the list build_command returned
    built,       \* whether build_command has returned
    \* the stream relay of one /run request (stream_output) and its subprocess
    plan,        \* what the subprocess will write and the code it exits with
    proc,        \* "none", "running" or "exited"
    outSent,     \* lines the subprocess has written to stdout
    errSent,     \* lines the subprocess has written to stderr
    outPipe,     \* lines in the stdout pipe, not yet read by the relay
    errPipe,     \* lines in the stderr pipe, not yet read by the relay
    rpc,         \* where stream_output stands
    events,      \* the events stream_output has yielded
    \* concurrent /run requests (run_command) and the directory they share
    reqs,        \* the form fields of each request
    hpc,         \* where each request's handler, response and subprocess stand
    fs,          \* the files under BASE_DIR: path -> content (None: no file)
    cmd,         \* the command each request built
    resp,        \* the events of each request's stream_error response
    spawned,     \* the subprocesses spawned for each request
    opened,      \* the files each request's handler has opened for writing
    procInput,   \* what each request's subprocess read from its input file
    \* parse_slsk_json
    entries,     \* the decoded JSON results, in input order
    pidx,        \* the entries the loop has gone through
    candidates,  \* the candidates dict, in insertion order
    ppc,         \* "idle", "loop" or "returned"
    parsed,      \* the list parse_slsk_json returned
    \* search_command
    returncode,     \* process.returncode of the search subprocess
    parsed_results, \* the scored candidates, sorted in place
    top_results,    \* parsed_results[:10]
    final_results,  \* the candidates with their art_url
    art_calls,      \* the (artist, album) of each fetch_metadata call, in order
    spc,            \* "idle", "scored", "resolve" or "done"
    response,       \* the JSONResponse returned
    \* one pass of search_command's metadata loop and its fetch_metadata call
    call,           \* the candidate and what the two services will answer
    apc,            \* where the pass stands
    queries,        \* the endpoints queried, in order
    art,            \* the art fetch_metadata holds or has returned
    res_art_url,    \* res["art_url"]
    http_status     \* the status of the /search response this pass leads to

buildVars == <<opts, env, command, built>>
relayVars == <<plan, proc, outSent, errSent, outPipe, errPipe, rpc, events>>
runVars == <<reqs, hpc, fs, cmd, resp, spawned, opened, procInput>>
parseVars == <<entries, pidx, candidates, ppc, parsed>>
searchVars ==
    <<returncode, parsed_results, top_results, final_results, art_calls, spc, response>>
artVars == <<call, apc, queries, art, res_art_url, http_status>>
vars == <<buildVars, relayVars, runVars, parseVars, searchVars, artVars>>

(***************************************************************************)
(* Python values.                                                           *)
(***************************************************************************)
\* Python's None, kept a string so that it compares with str values.
None == "<None>"

\* Truthiness of an Optional[str]: None and "" are falsy.
Truthy(s) == s # None /\ s # ""

Last(s) == s[Len(s)]

\* The number of elements of the list s that equal x (list.count).
RECURSIVE Count(_, _)
Count(s, x) ==
    IF s = <<>> THEN 0
    ELSE (IF Head(s) = x THEN 1 ELSE 0) + Count(Tail(s), x)

(***************************************************************************)
(* build_command (main.py 172-238).                                         *)
(***************************************************************************)
\* str(BASE_DIR / "sldl")
executable_path == "/app/sldl"

\* The primary input, by precedence, as the list of elements appended.
PositionalUrlLast(o) ==
    IF Truthy(o.input_file_path) THEN <<o.input_file_path>>
    ELSE IF Truthy(o.input_text) THEN <<o.input_text>>
    ELSE IF Truthy(o.spotify_playlist_url) THEN <<o.spotify_playlist_url>>
    ELSE <<>>

Positional(o) ==
    IF Truthy(o.spotify_playlist_url) THEN <<o.spotify_playlist_url>>
    ELSE IF Truthy(o.input_file_path) THEN <<o.input_file_path>>
    ELSE IF Truthy(o.input_text) THEN <<o.input_text>>
    ELSE <<>>

\* os.getenv("SLSK_PATH", "/downloads"): the default only when unset.
PathArgs(e) ==
    <<"--path", IF e.SLSK_PATH = None THEN "/downloads" ELSE e.SLSK_PATH>>

UserArgs(e) == IF Truthy(e.SLSK_USER) THEN <<"--user", e.SLSK_USER>> ELSE <<>>

PassArgs(e) == IF Truthy(e.SLSK_PASS) THEN <<"--pass", e.SLSK_PASS>> ELSE <<>>

FixedArgs == <<"--pref-format", "flac", "--no-progress">>

Flag(b, name) == IF b THEN <<name>> ELSE <<>>

ToggleArgs(o) ==
    Flag(o.desperate, "--desperate") \o Flag(o.fast_search, "--fast-search")
    \o Flag(o.remove_ft, "--remove-ft")
    \o Flag(o.artist_maybe_wrong, "--artist-maybe-wrong")
    \o Flag(o.album, "--album") \o Flag(o.interactive, "--interactive")

DatabaseArgsIndexOnly(o) ==
    IF o.use_database THEN <<"--index-path", "slsk_downloads.index">> ELSE <<>>

DatabaseArgs(o) ==
    IF o.use_database
    THEN <<"--index-path", "slsk_downloads.index", "--skip-existing">>
    ELSE <<>>

build_command(o, e) ==
    <<executable_path>> \o Positional(o) \o PathArgs(e) \o UserArgs(e)
    \o PassArgs(e) \o FixedArgs \o ToggleArgs(o) \o DatabaseArgs(o)

(***************************************************************************)
(* The inputs of a build_command call.                                      *)
(***************************************************************************)
TextValues == {"", "Artist - Song", "--skip-existing"}
FilePathValues == {None, "/app/list.csv"}
UrlValues == {None, "", "https://open.spotify.com/playlist/123"}

OptionRecords ==
    [input_text : TextValues, input_file_path : FilePathValues,
     spotify_playlist_url : UrlValues,
     desperate : BOOLEAN, fast_search : BOOLEAN, remove_ft : BOOLEAN,
     artist_maybe_wrong : BOOLEAN, album : BOOLEAN, interactive : BOOLEAN,
     use_database : BOOLEAN]

Environments ==
    [SLSK_PATH : {None, "/music", "--index-path"},
     SLSK_USER : {None, "", "user"},
     SLSK_PASS : {None, "secret"}]

\* build_command() with every parameter at its default.
DefaultOptions ==
    [input_text |-> "", input_file_path |-> None, spotify_playlist_url |-> None,
     desperate |-> FALSE, fast_search |-> FALSE, remove_ft |-> FALSE,
     artist_maybe_wrong |-> FALSE, album |-> FALSE, interactive |-> FALSE,
     use_database |-> FALSE]

EmptyEnvironment == [SLSK_PATH |-> None, SLSK_USER |-> None, SLSK_PASS |-> None]

BuildIdle ==
    /\ opts = DefaultOptions
    /\ env = EmptyEnvironment
    /\ command = <<>>
    /\ built = FALSE

NoPlan == [out |-> 0, err |-> 0, code |-> 0, keyword |-> {}, undecodable |-> {}]

RelayIdle ==
    /\ plan = NoPlan
    /\ proc = "none"
    /\ outSent = 0
    /\ errSent = 0
    /\ outPipe = <<>>
    /\ errPipe = <<>>
    /\ rpc = "idle"
    /\ events = <<>>

\* The /run requests in flight.
Requests == {1, 2}

RunIdle ==
    /\ reqs = [r \in Requests |-> DefaultOptions]
    /\ hpc = [r \in Requests |-> "idle"]
    /\ fs = <<>>
    /\ cmd = [r \in Requests |-> <<>>]
    /\ resp = [r \in Requests |-> <<>>]
    /\ spawned = [r \in Requests |-> 0]
    /\ opened = [r \in Requests |-> 0]
    /\ procInput = [r \in Requests |-> None]

ParseIdle ==
    /\ entries = <<>>
    /\ pidx = 0
    /\ candidates = <<>>
    /\ ppc = "idle"
    /\ parsed = <<>>

NoResponse == [status |-> 0, results |-> <<>>]

SearchIdle ==
    /\ returncode = 0
    /\ parsed_results = <<>>
    /\ top_results = <<>>
    /\ final_results = <<>>
    /\ art_calls = <<>>
    /\ spc = "idle"
    /\ response = NoResponse

NoCall == [artist |-> <<>>, album |-> <<>>, itunes |-> "no_match", deezer |-> "no_match"]

ArtIdle ==
    /\ call = NoCall
    /\ apc = "idle"
    /\ queries = <<>>
    /\ art = None
    /\ res_art_url = None
    /\ http_status = 0

InitBuild ==
    /\ opts \in OptionRecords
    /\ env \in Environments
    /\ command = <<>>
    /\ built = FALSE
    /\ RelayIdle
    /\ RunIdle
    /\ ParseIdle
    /\ SearchIdle
    /\ ArtIdle

\* One call of build_command.
Build ==
    /\ ~built
    /\ command' = build_command(opts, env)
    /\ built' = TRUE
    /\ UNCHANGED <<opts, env, relayVars, runVars, parseVars, searchVars, artVars>>

NextBuild == Build

SpecBuild == InitBuild /\ [][NextBuild]_vars

(***************************************************************************)
(* The stream relay: stream_output of run_command (main.py 393-437) and    *)
(* the subprocess it spawns.                                                *)
(***************************************************************************)
\* The most lines the subprocess writes to each stream.
MaxOut == 2
MaxErr == 3
\* The lines a pipe holds (the kernel's pipe buffer plus the StreamReader's
\* buffer) before a further write blocks.
PipeCap == 2

\* Exit codes, those of a signal included.
ExitCodes == {-9, 0, 1, 2, 255}

\* A line is named by its stream and its number in that stream.
LineId(stream, n) == <<stream, n>>

\* What the subprocess does: it writes plan.out lines to stdout and plan.err
\* lines to stderr, in any order, and exits with plan.code.  plan.keyword are
\* the lines whose lower-cased text holds one of the keywords, and
\* plan.undecodable the lines that are not valid UTF-8.
Plans ==
    { p \in [out : 0..MaxOut, err : 0..MaxErr, code : ExitCodes,
             keyword : SUBSET {LineId("stdout", n) : n \in 1..MaxOut},
             undecodable : SUBSET ({LineId("stdout", n) : n \in 1..MaxOut}
                                   \cup {LineId("stderr", n) : n \in 1..MaxErr})] :
        /\ \A l \in p.keyword : l[2] <= p.out
        /\ Cardinality(p.undecodable) <= 1
        /\ \A l \in p.undecodable :
              l[2] <= (IF l[1] = "stdout" THEN p.out ELSE p.err) }

\* line.decode('utf-8'): whether it returns, and the text it returns.
Decodable(line) == line \notin plan.undecodable
decode(line) == [stream |-> line[1], n |-> line[2]]

\* color of a stdout line: red when it holds a keyword (main.py 412-414).
StdoutColor(line) == IF line \in plan.keyword THEN "red" ELSE "default"

LineEvent(text, color) == [kind |-> "Line", text |-> text, color |-> color]
DoneEvent == [kind |-> "DONE"]
CrashEvent(c) == [kind |-> "CRASH", code |-> c]

\* The terminal event for a return code (main.py 432-437).
TerminalEventZeroOnly(c) == IF c = 0 THEN DoneEvent ELSE CrashEvent(c)

TerminalEvent(c) == IF c \in {0, 1} THEN DoneEvent ELSE CrashEvent(c)

\* The second loop runs only after the first has ended.
CanReadStderrEarly == rpc \in {"stdout", "stderr"}

CanReadStderr == rpc = "stderr"

InitRelay ==
    /\ BuildIdle
    /\ RunIdle
    /\ ParseIdle
    /\ SearchIdle
    /\ ArtIdle
    /\ plan \in Plans
    /\ proc = "none"
    /\ outSent = 0
    /\ errSent = 0
    /\ outPipe = <<>>
    /\ errPipe = <<>>
    /\ rpc = "spawn"
    /\ events = <<>>

\* asyncio.create_subprocess_exec (main.py 397-403).
Spawn ==
    /\ rpc = "spawn"
    /\ proc' = "running"
    /\ rpc' = "stdout"
    /\ UNCHANGED <<plan, outSent, errSent, outPipe, errPipe, events, buildVars, runVars, parseVars, searchVars, artVars>>

\* The subprocess writes its next stdout line; the write blocks while the
\* pipe is full.
ProcWriteStdout ==
    /\ proc = "running"
    /\ outSent < plan.out
    /\ Len(outPipe) < PipeCap
    /\ outSent' = outSent + 1
    /\ outPipe' = Append(outPipe, LineId("stdout", outSent + 1))
    /\ UNCHANGED <<plan, proc, errSent, errPipe, rpc, events, buildVars, runVars, parseVars, searchVars, artVars>>

ProcWriteStderr ==
    /\ proc = "running"
    /\ errSent < plan.err
    /\ Len(errPipe) < PipeCap
    /\ errSent' = errSent + 1
    /\ errPipe' = Append(errPipe, LineId("stderr", errSent + 1))
    /\ UNCHANGED <<plan, proc, outSent, outPipe, rpc, events, buildVars, runVars, parseVars, searchVars, artVars>>

\* The subprocess exits once it has written everything; that closes its end
\* of both pipes.
ProcExit ==
    /\ proc = "running"
    /\ outSent = plan.out
    /\ errSent = plan.err
    /\ proc' = "exited"
    /\ UNCHANGED <<plan, outSent, errSent, outPipe, errPipe, rpc, events, buildVars, runVars, parseVars, searchVars, artVars>>

\* One pass of the first loop with a line read (main.py 406-416).
ReadStdoutLine ==
    /\ rpc = "stdout"
    /\ outPipe # <<>>
    /\ outPipe' = Tail(outPipe)
    /\ IF Decodable(Head(outPipe))
       THEN /\ events' = Append(events, LineEvent(decode(Head(outPipe)),
                                                  StdoutColor(Head(outPipe))))
            /\ rpc' = rpc
       ELSE /\ events' = events
            /\ rpc' = "raised"
    /\ UNCHANGED <<plan, proc, outSent, errSent, errPipe, buildVars, runVars, parseVars, searchVars, artVars>>

\* readline returns b"" at end of file: the first loop breaks (main.py 408-409).
StdoutEOF ==
    /\ rpc = "stdout"
    /\ outPipe = <<>>
    /\ proc = "exited"
    /\ rpc' = "stderr"
    /\ UNCHANGED <<plan, proc, outSent, errSent, outPipe, errPipe, events, buildVars, runVars, parseVars, searchVars, artVars>>

\* One pass of the second loop with a line read (main.py 419-424).
ReadStderrLine ==
    /\ CanReadStderr
    /\ errPipe # <<>>
    /\ errPipe' = Tail(errPipe)
    /\ IF Decodable(Head(errPipe))
       THEN /\ events' = Append(events, LineEvent(decode(Head(errPipe)), "red"))
            /\ rpc' = rpc
       ELSE /\ events' = events
            /\ rpc' = "raised"
    /\ UNCHANGED <<plan, proc, outSent, errSent, outPipe, buildVars, runVars, parseVars, searchVars, artVars>>

StderrEOF ==
    /\ rpc = "stderr"
    /\ errPipe = <<>>
    /\ proc = "exited"
    /\ rpc' = "wait"
    /\ UNCHANGED <<plan, proc, outSent, errSent, outPipe, errPipe, events, buildVars, runVars, parseVars, searchVars, artVars>>

\* process.wait() returns and the terminal event is yielded (main.py 427-437).
WaitAndFinish ==
    /\ rpc = "wait"
    /\ proc = "exited"
    /\ events' = Append(events, TerminalEvent(plan.code))
    /\ rpc' = "done"
    /\ UNCHANGED <<plan, proc, outSent, errSent, outPipe, errPipe, buildVars, runVars, parseVars, searchVars, artVars>>

NextRelay ==
    \/ Spawn
    \/ ProcWriteStdout
    \/ ProcWriteStderr
    \/ ProcExit
    \/ ReadStdoutLine
    \/ StdoutEOF
    \/ ReadStderrLine
    \/ StderrEOF
    \/ WaitAndFinish

SpecRelay == InitRelay /\ [][NextRelay]_vars

\* The event loop runs a coroutine whose awaited read or wait can complete,
\* and the operating system runs a subprocess whose write can proceed.
FairRelay ==
    /\ SpecRelay
    /\ WF_vars(Spawn)
    /\ WF_vars(ProcWriteStdout)
    /\ WF_vars(ProcWriteStderr)
    /\ WF_vars(ProcExit)
    /\ WF_vars(ReadStdoutLine)
    /\ WF_vars(StdoutEOF)
    /\ WF_vars(ReadStderrLine)
    /\ WF_vars(StderrEOF)
    /\ WF_vars(WaitAndFinish)

(***************************************************************************)
(* The /run handler, run_command (main.py 343-438), for concurrent         *)
(* requests that share the directory BASE_DIR.                              *)
(***************************************************************************)
\* UploadFile.filename of the uploaded file: None when no file part was
\* sent, "" when the part has no filename.
FileNames == {None, "", "list.csv", "other.csv"}

\* BASE_DIR / input_file.filename
SavePath(filename) ==
    CASE filename = "list.csv" -> "/app/list.csv"
      [] filename = "other.csv" -> "/app/other.csv"

SavePaths == {SavePath(f) : f \in {f \in FileNames : Truthy(f)}}

\* The bytes request r uploaded.
Upload(r) ==
    IF r = 1 THEN "bytes uploaded by request 1" ELSE "bytes uploaded by request 2"

\* The toggles of a request: none, all, or use_database alone.
RunToggles ==
    { [desperate |-> b, fast_search |-> b, remove_ft |-> b,
       artist_maybe_wrong |-> b, album |-> b, interactive |-> b,
       use_database |-> d] : b \in BOOLEAN, d \in BOOLEAN } \ 
    { [desperate |-> TRUE, fast_search |-> TRUE, remove_ft |-> TRUE,
       artist_maybe_wrong |-> TRUE, album |-> TRUE, interactive |-> TRUE,
       use_database |-> FALSE] }

RunRequests ==
    { [input_text |-> t, input_file |-> f, spotify_playlist_url |-> u,
       toggles |-> g] :
         t \in {"", "Artist - Song"}, f \in FileNames, u \in UrlValues,
         g \in RunToggles }

RunEnvironments ==
    {EmptyEnvironment,
     [SLSK_PATH |-> "/music", SLSK_USER |-> "user", SLSK_PASS |-> "secret"]}

\* not any([input_text, input_file and input_file.filename, spotify_playlist_url])
NoInputTextOnly(q) == ~Truthy(q.input_text)

NoInput(q) ==
    ~(Truthy(q.input_text) \/ Truthy(q.input_file) \/ Truthy(q.spotify_playlist_url))

\* The build_command call of run_command (main.py 376-387).
RunCommand(q, input_file_path, e) ==
    build_command(
        [input_text |-> q.input_text, input_file_path |-> input_file_path,
         spotify_playlist_url |-> q.spotify_playlist_url,
         desperate |-> q.toggles.desperate, fast_search |-> q.toggles.fast_search,
         remove_ft |-> q.toggles.remove_ft,
         artist_maybe_wrong |-> q.toggles.artist_maybe_wrong,
         album |-> q.toggles.album, interactive |-> q.toggles.interactive,
         use_database |-> q.toggles.use_database], e)

ErrorLine ==
    LineEvent("Error: No input provided. Please enter search terms, a URL, or upload a file.\n",
              "red")

InitRun ==
    /\ opts = DefaultOptions
    /\ command = <<>>
    /\ built = FALSE
    /\ env \in RunEnvironments
    /\ RelayIdle
    /\ ParseIdle
    /\ SearchIdle
    /\ ArtIdle
    /\ reqs \in [Requests -> RunRequests]
    /\ hpc = [r \in Requests |-> "pending"]
    /\ fs = [p \in SavePaths |-> None]
    /\ cmd = [r \in Requests |-> <<>>]
    /\ resp = [r \in Requests |-> <<>>]
    /\ spawned = [r \in Requests |-> 0]
    /\ opened = [r \in Requests |-> 0]
    /\ procInput = [r \in Requests |-> None]

\* The handler runs up to its first await: it returns the stream_error
\* response (main.py 360-364), or opens the upload's file for writing, which
\* creates or truncates it (main.py 368-370), or, with no upload, builds the
\* command and returns the stream_output response (main.py 376-438).
Receive(r) ==
    /\ hpc[r] = "pending"
    /\ IF NoInput(reqs[r])
       THEN /\ hpc' = [hpc EXCEPT ![r] = "error"]
            /\ UNCHANGED <<fs, cmd, opened>>
       ELSE IF Truthy(reqs[r].input_file)
       THEN /\ fs' = [fs EXCEPT ![SavePath(reqs[r].input_file)] = ""]
            /\ opened' = [opened EXCEPT ![r] = @ + 1]
            /\ hpc' = [hpc EXCEPT ![r] = "saving"]
            /\ UNCHANGED cmd
       ELSE /\ cmd' = [cmd EXCEPT ![r] = RunCommand(reqs[r], None, env)]
            /\ hpc' = [hpc EXCEPT ![r] = "respond"]
            /\ UNCHANGED <<fs, opened>>
    /\ UNCHANGED <<reqs, resp, spawned, procInput, buildVars, relayVars, parseVars, searchVars, artVars>>

\* After await input_file.read(): the content is written, the file closed,
\* the command built and the stream_output response returned (main.py 371-438).
Save(r) ==
    /\ hpc[r] = "saving"
    /\ fs' = [fs EXCEPT ![SavePath(reqs[r].input_file)] = Upload(r)]
    /\ cmd' = [cmd EXCEPT ![r] =
                  RunCommand(reqs[r], SavePath(reqs[r].input_file), env)]
    /\ hpc' = [hpc EXCEPT ![r] = "respond"]
    /\ UNCHANGED <<reqs, resp, spawned, opened, procInput, buildVars, relayVars, parseVars, searchVars, artVars>>

\* The response starts to be sent: stream_output spawns the subprocess
\* (main.py 397-403).
StartStream(r) ==
    /\ hpc[r] = "respond"
    /\ spawned' = [spawned EXCEPT ![r] = @ + 1]
    /\ hpc' = [hpc EXCEPT ![r] = "running"]
    /\ UNCHANGED <<reqs, fs, cmd, resp, opened, procInput, buildVars, relayVars, parseVars, searchVars, artVars>>

\* The subprocess reads the file its positional argument names, when that
\* is a file under BASE_DIR.
ProcReadInput(r) ==
    /\ hpc[r] = "running"
    /\ procInput' = [procInput EXCEPT ![r] =
                        IF cmd[r][2] \in SavePaths THEN fs[cmd[r][2]] ELSE None]
    /\ hpc' = [hpc EXCEPT ![r] = "finished"]
    /\ UNCHANGED <<reqs, fs, cmd, resp, spawned, opened, buildVars, relayVars, parseVars, searchVars, artVars>>

\* stream_error yields its two events (main.py 361-363).
StreamErrorLine(r) ==
    /\ hpc[r] = "error"
    /\ resp[r] = <<>>
    /\ resp' = [resp EXCEPT ![r] = Append(@, ErrorLine)]
    /\ UNCHANGED <<reqs, hpc, fs, cmd, spawned, opened, procInput, buildVars, relayVars, parseVars, searchVars, artVars>>

StreamErrorDone(r) ==
    /\ hpc[r] = "error"
    /\ Len(resp[r]) = 1
    /\ resp' = [resp EXCEPT ![r] = Append(@, DoneEvent)]
    /\ hpc' = [hpc EXCEPT ![r] = "done"]
    /\ UNCHANGED <<reqs, fs, cmd, spawned, opened, procInput, buildVars, relayVars, parseVars, searchVars, artVars>>

NextRun ==
    \/ \E r \in Requests : Receive(r)
    \/ \E r \in Requests : Save(r)
    \/ \E r \in Requests : StartStream(r)
    \/ \E r \in Requests : ProcReadInput(r)
    \/ \E r \in Requests : StreamErrorLine(r)
    \/ \E r \in Requests : StreamErrorDone(r)

SpecRun == InitRun /\ [][NextRun]_vars

(***************************************************************************)
(* parse_slsk_json (main.py 76-169).  Strings are sequences of characters. *)
(***************************************************************************)
UpperLetters == <<"A", "B", "C", "D", "E", "F", "G", "H", "I", "J", "K", "L", "M", "N", "O", "P", "Q", "R", "S", "T", "U", "V", "W", "X", "Y", "Z">>
LowerLetters == <<"a", "b", "c", "d", "e", "f", "g", "h", "i", "j", "k", "l", "m", "n", "o", "p", "q", "r", "s", "t", "u", "v", "w", "x", "y", "z">>

\* str.lower() of one character and of a string.
LowerChar(c) ==
    IF \E i \in 1..Len(UpperLetters) : UpperLetters[i] = c
    THEN LowerLetters[CHOOSE i \in 1..Len(UpperLetters) : UpperLetters[i] = c]
    ELSE c

lower(s) == [i \in 1..Len(s) |-> LowerChar(s[i])]

\* filename.replace("\\", "/")
NormalizeSeparators(s) == [i \in 1..Len(s) |-> IF s[i] = "\\" THEN "/" ELSE s[i]]

\* s.split(sep) for a one-character separator.
RECURSIVE split(_, _)
split(s, sep) ==
    IF \E i \in 1..Len(s) : s[i] = sep
    THEN LET i == CHOOSE i \in 1..Len(s) :
                     s[i] = sep /\ \A j \in 1..(i - 1) : s[j] # sep
         IN  <<SubSeq(s, 1, i - 1)>> \o split(SubSeq(s, i + 1, Len(s)), sep)
    ELSE <<s>>

\* Whether t occurs in s at position i.
OccursAt(s, i, t) ==
    /\ i >= 1
    /\ i + Len(t) - 1 <= Len(s)
    /\ SubSeq(s, i, i + Len(t) - 1) = t

\* t in s
In(t, s) == \E i \in 1..Len(s) : OccursAt(s, i, t)

\* s.split(t, 1) when t occurs in s: the parts before and after the first t.
SplitOnce(s, t) ==
    LET i == CHOOSE i \in 1..Len(s) :
                 OccursAt(s, i, t) /\ \A j \in 1..(i - 1) : ~OccursAt(s, j, t)
    IN  <<SubSeq(s, 1, i - 1), SubSeq(s, i + Len(t), Len(s))>>

IsSpace(c) == c \in {" ", "\t", "\n", "\r"}
IsDigit(c) == c \in {"0", "1", "2", "3", "4", "5", "6", "7", "8", "9"}
IsOpen(c) == c \in {"(", "["}
IsClose(c) == c \in {")", "]"}

\* The least k >= i with s[k] not white space (Len(s) + 1 when there is none).
RECURSIVE SkipSpaces(_, _)
SkipSpaces(s, i) ==
    IF i <= Len(s) /\ IsSpace(s[i]) THEN SkipSpaces(s, i + 1) ELSE i

\* s.strip()
RECURSIVE strip(_)
strip(s) ==
    IF s = <<>> THEN s
    ELSE IF IsSpace(Head(s)) THEN strip(Tail(s))
    ELSE IF IsSpace(s[Len(s)]) THEN strip(SubSeq(s, 1, Len(s) - 1))
    ELSE s

\* re.sub(r'^[\(\[]?\d{4}[\)\]]?\s*[-]?\s*', '', album)
RemoveYear(s) ==
    LET j == IF Len(s) >= 1 /\ IsOpen(s[1]) THEN 2 ELSE 1
        digits == j + 3 <= Len(s) /\ \A k \in j..(j + 3) : IsDigit(s[k])
        a == IF j + 4 <= Len(s) /\ IsClose(s[j + 4]) THEN j + 5 ELSE j + 4
        b == SkipSpaces(s, a)
        c == IF b <= Len(s) /\ s[b] = "-" THEN b + 1 ELSE b
        d == SkipSpaces(s, c)
    IN  IF digits THEN SubSeq(s, d, Len(s)) ELSE s

\* FLAC|MP3|320|V0|AAC, lower-cased for the case-blind comparison.
FormatTags ==
    <<<<"f", "l", "a", "c">>,
      <<"m", "p", "3">>,
      <<"3", "2", "0">>,
      <<"v", "0">>,
      <<"a", "a", "c">>>>

\* The length of the format tag at position i of s, case ignored; 0 if none.
TagLenAt(s, i) ==
    IF \E n \in 1..Len(FormatTags) :
           i + Len(FormatTags[n]) - 1 <= Len(s)
           /\ lower(SubSeq(s, i, i + Len(FormatTags[n]) - 1)) = FormatTags[n]
    THEN Len(FormatTags[CHOOSE n \in 1..Len(FormatTags) :
           /\ i + Len(FormatTags[n]) - 1 <= Len(s)
           /\ lower(SubSeq(s, i, i + Len(FormatTags[n]) - 1)) = FormatTags[n]
           /\ \A m \in 1..(n - 1) :
                 ~(/\ i + Len(FormatTags[m]) - 1 <= Len(s)
                   /\ lower(SubSeq(s, i, i + Len(FormatTags[m]) - 1)) = FormatTags[m])])
    ELSE 0

\* The length of the match of [\(\[]?(?:FLAC|MP3|320|V0|AAC)[\)\]]? at
\* position i of s; 0 if none.
FormatMatchLen(s, i) ==
    LET j == IF IsOpen(s[i]) /\ TagLenAt(s, i + 1) > 0 THEN i + 1 ELSE i
        t == TagLenAt(s, j)
        e == j + t
    IN  IF t = 0 THEN 0
        ELSE (IF e <= Len(s) /\ IsClose(s[e]) THEN e + 1 ELSE e) - i

\* re.sub(r'[\(\[]?(?:FLAC|MP3|320|V0|AAC)[\)\]]?', '', album, flags=re.IGNORECASE)
\* from position i on.
RECURSIVE RemoveFormatsFrom(_, _)
RemoveFormatsFrom(s, i) ==
    IF i > Len(s) THEN <<>>
    ELSE IF FormatMatchLen(s, i) > 0
         THEN RemoveFormatsFrom(s, i + FormatMatchLen(s, i))
         ELSE <<s[i]>> \o RemoveFormatsFrom(s, i + 1)

RemoveFormats(s) == RemoveFormatsFrom(s, 1)

IsGroupOpen(c) == c \in {"(", "[", "{"}
IsGroupClose(c) == c \in {")", "]", "}"}

\* re.sub(r'[\(\[\{].*?[\)\]\}]', '', album) from position i on.
RECURSIVE RemoveGroupsFrom(_, _)
RemoveGroupsFrom(s, i) ==
    IF i > Len(s) THEN <<>>
    ELSE IF IsGroupOpen(s[i]) /\ \E j \in (i + 1)..Len(s) : IsGroupClose(s[j])
         THEN LET j == CHOOSE j \in (i + 1)..Len(s) :
                          /\ IsGroupClose(s[j])
                          /\ \A k \in (i + 1)..(j - 1) : ~IsGroupClose(s[k])
              IN  RemoveGroupsFrom(s, j + 1)
         ELSE <<s[i]>> \o RemoveGroupsFrom(s, i + 1)

RemoveGroups(s) == RemoveGroupsFrom(s, 1)

Unknown == <<"U", "n", "k", "n", "o", "w", "n">>
\* " - "
DashSeparator == <<" ", "-", " ">>
generic_folders ==
    {<<"m", "u", "s", "i", "c">>,
     <<"m", "p", "3">>,
     <<"f", "l", "a", "c">>,
     <<"u", "p", "l", "o", "a", "d", "s">>,
     <<"s", "o", "u", "l", "s", "e", "e", "k">>,
     <<"d", "o", "w", "n", "l", "o", "a", "d", "s">>,
     <<"c", "o", "m", "p", "l", "e", "t", "e">>}

\* The artist and album folders of the path segments (main.py 99-130);
\* skip: the entry is dropped by the continue of line 130.
RawPair(parts) ==
    LET n == Len(parts) IN
    IF n >= 3
    THEN IF lower(parts[n - 2]) \in generic_folders /\ In(DashSeparator, parts[n - 1])
         THEN [skip |-> FALSE,
               artist |-> SplitOnce(parts[n - 1], DashSeparator)[1],
               album |-> SplitOnce(parts[n - 1], DashSeparator)[2]]
         ELSE [skip |-> FALSE, artist |-> parts[n - 2], album |-> parts[n - 1]]
    ELSE IF n = 2
    THEN IF In(DashSeparator, parts[n - 1])
         THEN [skip |-> FALSE,
               artist |-> SplitOnce(parts[n - 1], DashSeparator)[1],
               album |-> SplitOnce(parts[n - 1], DashSeparator)[2]]
         ELSE [skip |-> TRUE, artist |-> Unknown, album |-> Unknown]
    ELSE [skip |-> FALSE, artist |-> Unknown, album |-> Unknown]

\* The cleanup of lines 136-146.
CleanAlbum(album) == strip(RemoveGroups(RemoveFormats(RemoveYear(album))))

\* key = f"{artist}|{album}"
CandidateKey(artist, album) == artist \o <<"|">> \o album

\* One entry with a Filename, as the loop body sees it: whether it is kept,
\* and then its artist, album, key and normalized filename (main.py 89-151).
Extract(filename) ==
    LET norm == NormalizeSeparators(filename)
        raw == RawPair(split(norm, "/"))
        artist == strip(raw.artist)
        album == CleanAlbum(raw.album)
    IN  [keep |-> /\ filename # <<>>
                  /\ ~raw.skip
                  /\ artist # <<>> /\ album # <<>> /\ artist # Unknown,
         artist |-> artist, album |-> album,
         key |-> CandidateKey(artist, album),
         filename |-> norm]

\* The position of the candidate stored under key k; 0 when there is none.
KeyIndex(cands, k) ==
    IF \E i \in 1..Len(cands) : cands[i].key = k
    THEN CHOOSE i \in 1..Len(cands) : cands[i].key = k
    ELSE 0

\* Lines 151-160: a new candidate, or one more file for an old one.
Accumulate(cands, x) ==
    IF KeyIndex(cands, x.key) = 0
    THEN Append(cands, [key |-> x.key, artist |-> x.artist, album |-> x.album,
                        files |-> 1, sample_file |-> x.filename])
    ELSE [cands EXCEPT ![KeyIndex(cands, x.key)].files = @ + 1]

\* The results the external tool printed: objects with a File.Filename, and
\* values result.get or file_info.get raises on.
\* no Filename, or an empty one
fn_empty == <<>>

\* a bare file name
fn_one_part == <<"t">>

\* Album/Track without a dash
fn_two_plain == <<"B", "/", "t">>

\* Artist - Album/Track
fn_two_dash == <<"A", " ", "-", " ", "B", "/", "t">>

\* .../Artist/Album/Track
fn_three == <<"x", "/", "A", "/", "B", "/", "t">>

\* the same folders, Windows separators
fn_backslash == <<"x", "\\", "A", "\\", "B", "\\", "u">>

\* generic folder, Artist - Album
fn_generic == <<"m", "p", "3", "/", "A", " ", "-", " ", "B", "/", "v">>

\* generic folder in upper case, no dash
fn_generic_upper == <<"M", "P", "3", "/", "C", "/", "t">>

\* artist A|B, album C
fn_bar_artist == <<"A", "|", "B", "/", "C", "/", "t">>

\* artist A, album B|C
fn_bar_album == <<"A", "/", "B", "|", "C", "/", "t">>

\* year and format tag around the album
fn_tags == <<"A", "/", "(", "2", "0", "0", "1", ")", " ", "B", " ", "[", "F", "L", "A", "C", "]", "/", "w">>

\* bare year with a dash, braced tag
fn_year_dash == <<"A", "/", "2", "0", "0", "1", " ", "-", " ", "C", " ", "{", "c", "d", "}", "/", "t">>

\* the album is only a bracketed tag
fn_only_tag == <<"A", "/", "[", "x", "]", "/", "t">>

\* artist folder named Unknown
fn_unknown == <<"U", "n", "k", "n", "o", "w", "n", "/", "B", "/", "t">>

\* format tag in lower case
fn_lower_tag == <<"A", "/", "C", " ", "m", "p", "3", "/", "t">>

ParseFileNames ==
    {fn_empty,
     fn_one_part,
     fn_two_plain,
     fn_two_dash,
     fn_three,
     fn_backslash,
     fn_generic,
     fn_generic_upper,
     fn_bar_artist,
     fn_bar_album,
     fn_tags,
     fn_year_dash,
     fn_only_tag,
     fn_unknown,
     fn_lower_tag}

\* The most results in one output.
MaxEntries == 3

Malformed == [wellformed |-> FALSE, Filename |-> <<>>]

ParseEntries ==
    {[wellformed |-> TRUE, Filename |-> f] : f \in ParseFileNames} \cup {Malformed}

ParseInputs == UNION {[1..n -> ParseEntries] : n \in 0..MaxEntries}

InitParse ==
    /\ BuildIdle
    /\ RelayIdle
    /\ RunIdle
    /\ SearchIdle
    /\ ArtIdle
    /\ entries \in ParseInputs
    /\ pidx = 0
    /\ candidates = <<>>
    /\ ppc = "loop"
    /\ parsed = <<>>

\* One pass of the for loop (main.py 88-160); an exception raised in it ends
\* the function with [] (main.py 167-169).
ParseStep ==
    /\ ppc = "loop"
    /\ pidx < Len(entries)
    /\ pidx' = pidx + 1
    /\ LET e == entries[pidx + 1] IN
       IF ~e.wellformed
       THEN /\ ppc' = "returned"
            /\ parsed' = <<>>
            /\ UNCHANGED candidates
       ELSE /\ candidates' = IF Extract(e.Filename).keep
                             THEN Accumulate(candidates, Extract(e.Filename))
                             ELSE candidates
            /\ UNCHANGED <<ppc, parsed>>
    /\ UNCHANGED <<entries, buildVars, relayVars, runVars, searchVars, artVars>>

\* return list(candidates.values()) (main.py 162).
ParseReturn ==
    /\ ppc = "loop"
    /\ pidx = Len(entries)
    /\ parsed' = [i \in 1..Len(candidates) |->
                     [artist |-> candidates[i].artist, album |-> candidates[i].album,
                      files |-> candidates[i].files,
                      sample_file |-> candidates[i].sample_file]]
    /\ ppc' = "returned"
    /\ UNCHANGED <<entries, pidx, candidates, buildVars, relayVars, runVars, searchVars, artVars>>

NextParse == ParseStep \/ ParseReturn

SpecParse == InitParse /\ [][NextParse]_vars

(***************************************************************************)
(* fetch_metadata (main.py 23-74) and search_command (main.py 246-340).    *)
(***************************************************************************)
\* What a metadata service does with one query: a 200 answer whose first
\* result carries the URL, a 200 answer whose first result lacks it, a 200
\* answer with no result, another status, an exception of client.get, and a
\* body resp.json() cannot decode.
Outcomes ==
    {"match", "match_no_url", "no_match", "non_200", "network_error", "malformed_json"}

ItunesArt == "https://is1-ssl.mzstatic.com/image/600x600bb.jpg"
DeezerPicture == "https://e-cdns-images.dzcdn.net/images/artist/1000x1000.jpg"
Placeholder == "https://placehold.co/200x200?text=No+Art"

\* fetch_itunes_album: the rewritten artwork URL on a match, else None; an
\* exception is caught and gives None (main.py 25-41).
fetch_itunes_album(outcome) == IF outcome = "match" THEN ItunesArt ELSE None

\* fetch_deezer_artist (main.py 45-56).
fetch_deezer_artist(outcome) == IF outcome = "match" THEN DeezerPicture ELSE None

\* fetch_metadata (main.py 58-74), given what the two services would answer.
fetch_metadata(artist, album, itunes, deezer) ==
    IF artist = <<>> THEN None
    ELSE IF album # <<>> /\ album # Unknown /\ fetch_itunes_album(itunes) # None
         THEN fetch_itunes_album(itunes)
         ELSE fetch_deezer_artist(deezer)

\* The slice bound of parsed_results[:10] (main.py 323).
TopN == 10

\* The most candidates of one search.
MaxCands == 11

\* x sorts before y under key=(score, files), reverse=True.
RanksBeforeScoreOnly(x, y) == x.score > y.score

RanksBefore(x, y) ==
    \/ x.score > y.score
    \/ x.score = y.score /\ x.files > y.files

\* list.sort(key=lambda x: (x["score"], x["files"]), reverse=True): a stable
\* sort, so candidates with equal keys keep their order.
RECURSIVE InsertSorted(_, _)
InsertSorted(sorted, x) ==
    IF sorted = <<>> THEN <<x>>
    ELSE IF RanksBefore(x, Head(sorted))
         THEN <<x>> \o sorted
         ELSE <<Head(sorted)>> \o InsertSorted(Tail(sorted), x)

RECURSIVE SortDescending(_)
SortDescending(list) ==
    IF list = <<>> THEN <<>>
    ELSE InsertSorted(SortDescending(SubSeq(list, 1, Len(list) - 1)),
                      list[Len(list)])

\* list[:k]
Slice(list, k) == SubSeq(list, 1, IF Len(list) < k THEN Len(list) ELSE k)

Digits == <<"0", "1", "2", "3", "4", "5", "6", "7", "8", "9">>

\* The name of the i-th folder of a kind: a letter and two digits.
Name(letter, i) == <<letter, Digits[(i \div 10) + 1], Digits[(i % 10) + 1]>>

\* The score (in hundredths: the ratio, plus 20 when the query is contained)
\* and file count of the i-th candidate, by pattern: one score with differing
\* file counts; and unsorted scores, some equal with differing file counts
\* and some equal with equal file counts.
ScorePatterns == {"tied", "mixed"}

ScoreOf(pattern, i) ==
    CASE pattern = "tied" -> 50
      [] pattern = "mixed" -> ((i * 7) % 5) * 20

FilesOf(pattern, i) ==
    CASE pattern = "tied" -> (i % 3) + 1
      [] pattern = "mixed" -> (i % 2) + 1

\* The candidates of parse_slsk_json with the score of lines 304-317.
ScoredCandidates(pattern, n) ==
    [i \in 1..n |->
        [artist |-> Name("a", i),
         album |-> IF i = 2 THEN Unknown ELSE Name("b", i),
         files |-> FilesOf(pattern, i),
         sample_file |-> Name("f", i),
         score |-> ScoreOf(pattern, i)]]

InitSearch ==
    /\ BuildIdle
    /\ RelayIdle
    /\ RunIdle
    /\ ParseIdle
    /\ ArtIdle
    /\ returncode \in {0, 1}
    /\ \E pattern \in ScorePatterns, n \in 0..MaxCands :
          parsed_results = ScoredCandidates(pattern, n)
    /\ top_results = <<>>
    /\ final_results = <<>>
    /\ art_calls = <<>>
    /\ spc = "scored"
    /\ response = NoResponse

\* The search subprocess failed: a 500 response (main.py 286-294).
SearchFailed ==
    /\ spc = "scored"
    /\ returncode # 0
    /\ response' = [status |-> 500, results |-> <<>>]
    /\ spc' = "done"
    /\ UNCHANGED <<returncode, parsed_results, top_results, final_results, art_calls,
                   buildVars, relayVars, runVars, parseVars, artVars>>

\* The sort and the slice (main.py 319-326).
SortAndSlice ==
    /\ spc = "scored"
    /\ returncode = 0
    /\ parsed_results' = SortDescending(parsed_results)
    /\ top_results' = Slice(parsed_results', TopN)
    /\ spc' = "resolve"
    /\ UNCHANGED <<returncode, final_results, art_calls, response,
                   buildVars, relayVars, runVars, parseVars, artVars>>

\* What fetch_metadata can return for a candidate, over every answer of the
\* two services.
ArtUrls(res) ==
    {fetch_metadata(res.artist, res.album, itunes, deezer) :
        itunes \in Outcomes, deezer \in Outcomes}

\* One pass of the loop over top_results (main.py 327-334).
ResolveArt ==
    /\ spc = "resolve"
    /\ Len(final_results) < Len(top_results)
    /\ LET res == top_results[Len(final_results) + 1] IN
       \E art_url \in ArtUrls(res) :
          /\ art_calls' = Append(art_calls, <<res.artist, res.album>>)
          /\ final_results' =
                Append(final_results,
                       [artist |-> res.artist, album |-> res.album,
                        files |-> res.files, sample_file |-> res.sample_file,
                        score |-> res.score,
                        art_url |-> IF art_url # None THEN art_url ELSE Placeholder])
    /\ UNCHANGED <<returncode, parsed_results, top_results, spc, response,
                   buildVars, relayVars, runVars, parseVars, artVars>>

\* return JSONResponse({"results": final_results}) (main.py 336).
SearchRespond ==
    /\ spc = "resolve"
    /\ Len(final_results) = Len(top_results)
    /\ response' = [status |-> 200, results |-> final_results]
    /\ spc' = "done"
    /\ UNCHANGED <<returncode, parsed_results, top_results, final_results, art_calls,
                   buildVars, relayVars, runVars, parseVars, artVars>>

NextSearch ==
    \/ SearchFailed
    \/ SortAndSlice
    \/ ResolveArt
    \/ SearchRespond

SpecSearch == InitSearch /\ [][NextSearch]_vars

(***************************************************************************)
(* One pass of the metadata loop of search_command (main.py 327-334), with *)
(* the fetch_metadata call it awaits (main.py 23-74) taken step by step.   *)
(***************************************************************************)
\* The exception a query raises inside the try block: client.get on a network
\* error (main.py 30, 49), resp.json() on a malformed body (main.py 32, 51).
ExceptionOf(outcome) ==
    CASE outcome = "network_error" -> "httpx.RequestError"
      [] outcome = "malformed_json" -> "json.JSONDecodeError"
      [] OTHER -> None

\* The classes derived from Exception.
ExceptionClasses == {"httpx.RequestError", "json.JSONDecodeError"}

\* except Exception (main.py 39, 54): whether the handler catches exc.
SwallowedTransportOnly(exc) == exc = "httpx.RequestError"

Swallowed(exc) == exc \in ExceptionClasses

\* if album and album != "Unknown" (main.py 66).
QueriesAlbum(album) == album # <<>> /\ album # Unknown

\* album folder named Unknown
fn_album_unknown == <<"A", "/", "U", "n", "k", "n", "o", "w", "n", "/", "t">>

\* album folder named unknown, in lower case
fn_album_lower == <<"A", "/", "u", "n", "k", "n", "o", "w", "n", "/", "t">>

\* The (artist, album) of the candidates parse_slsk_json can return: the loop
\* passes res["artist"] and res["album"] of a candidate (main.py 331).
ArtCandidates ==
    {<<Extract(f).artist, Extract(f).album>> :
        f \in {g \in ParseFileNames \cup {fn_album_unknown, fn_album_lower} :
                  Extract(g).keep}}

ArtCalls ==
    {[artist |-> c[1], album |-> c[2], itunes |-> i, deezer |-> d] :
        c \in ArtCandidates, i \in Outcomes, d \in Outcomes}

InitArt ==
    /\ BuildIdle
    /\ RelayIdle
    /\ RunIdle
    /\ ParseIdle
    /\ SearchIdle
    /\ call \in ArtCalls
    /\ apc = "call"
    /\ queries = <<>>
    /\ art = None
    /\ res_art_url = None
    /\ http_status = 0

\* fetch_metadata up to its first await (main.py 62-66).
EnterFetch ==
    /\ apc = "call"
    /\ apc' = IF call.artist = <<>> THEN "returned"
              ELSE IF QueriesAlbum(call.album) THEN "itunes"
              ELSE "deezer"
    /\ UNCHANGED <<call, queries, art, res_art_url, http_status,
                   buildVars, relayVars, runVars, parseVars, searchVars>>

\* await fetch_itunes_album(artist, album) and "if art: return art"
\* (main.py 67-68, 25-41).
QueryItunes ==
    /\ apc = "itunes"
    /\ queries' = Append(queries, "itunes")
    /\ IF ExceptionOf(call.itunes) # None /\ ~Swallowed(ExceptionOf(call.itunes))
       THEN /\ apc' = "raised"
            /\ UNCHANGED art
       ELSE /\ art' = fetch_itunes_album(call.itunes)
            /\ apc' = IF art' # None THEN "returned" ELSE "deezer"
    /\ UNCHANGED <<call, res_art_url, http_status,
                   buildVars, relayVars, runVars, parseVars, searchVars>>

\* await fetch_deezer_artist(artist) and the two returns after it
\* (main.py 71-74, 45-56).
QueryDeezer ==
    /\ apc = "deezer"
    /\ queries' = Append(queries, "deezer")
    /\ IF ExceptionOf(call.deezer) # None /\ ~Swallowed(ExceptionOf(call.deezer))
       THEN /\ apc' = "raised"
            /\ UNCHANGED art
       ELSE /\ art' = fetch_deezer_artist(call.deezer)
            /\ apc' = "returned"
    /\ UNCHANGED <<call, res_art_url, http_status,
                   buildVars, relayVars, runVars, parseVars, searchVars>>

\* The rest of the pass: res["art_url"] = art_url or the placeholder, and the
\* result is kept for the 200 response (main.py 333-336); an exception out of
\* fetch_metadata reaches the handler's except clause instead, which answers
\* 500 (main.py 338-340).
FinishPass ==
    /\ apc \in {"returned", "raised"}
    /\ IF apc = "raised"
       THEN /\ http_status' = 500
            /\ apc' = "failed"
            /\ UNCHANGED res_art_url
       ELSE /\ res_art_url' = IF art # None THEN art ELSE Placeholder
            /\ http_status' = 200
            /\ apc' = "assigned"
    /\ UNCHANGED <<call, queries, art,
                   buildVars, relayVars, runVars, parseVars, searchVars>>

NextArt ==
    \/ EnterFetch
    \/ QueryItunes
    \/ QueryDeezer
    \/ FinishPass

SpecArt == InitArt /\ [][NextArt]_vars

(***************************************************************************)
(* Claims about build_command, checked under SpecBuild.                     *)
(***************************************************************************)
\* The number of leading inputs build_command is expected to place: 1 when
\* any of the three inputs is present.
AnyInput(o) ==
    \/ Truthy(o.spotify_playlist_url)
    \/ Truthy(o.input_file_path)
    \/ Truthy(o.input_text)

\* C1: for every combination of the three inputs and every toggle setting,
\* the command holds at most one positional argument directly after the
\* executable path (the --path pair follows it at once), and that argument
\* is the playlist URL if present, else the file path if present, else the
\* free text if present, else there is none.
C1_PositionalPrecedence ==
    built =>
        LET k == IF AnyInput(opts) THEN 1 ELSE 0 IN
        /\ command[1] = executable_path
        /\ SubSeq(command, 2 + k, 3 + k) = PathArgs(env)
        /\ Truthy(opts.spotify_playlist_url)
              => command[2] = opts.spotify_playlist_url
        /\ (~Truthy(opts.spotify_playlist_url) /\ Truthy(opts.input_file_path))
              => command[2] = opts.input_file_path
        /\ (/\ ~Truthy(opts.spotify_playlist_url)
            /\ ~Truthy(opts.input_file_path)
            /\ Truthy(opts.input_text))
              => command[2] = opts.input_text

C1_Witness ==
    /\ built
    /\ Truthy(opts.spotify_playlist_url)
    /\ Truthy(opts.input_file_path)
    /\ Truthy(opts.input_text)
    /\ command[2] = opts.spotify_playlist_url
    /\ command[3] = "--path"

\* C2: the command is exactly the executable path, then the positional
\* argument when one is supplied, then only the flags of the options that
\* were set; so with no input and no option it is [executablePath], and with
\* only free text T it is [executablePath, T].
C2_ExactCommand ==
    built =>
        command = <<executable_path>> \o Positional(opts) \o UserArgs(env)
                  \o PassArgs(env) \o ToggleArgs(opts) \o DatabaseArgs(opts)

DatabaseTriple == <<"--index-path", "slsk_downloads.index", "--skip-existing">>

\* Whether the list s holds the three elements of t consecutively.
HasConsecutive(s, t) ==
    \E i \in 1..Len(s) : i + Len(t) - 1 <= Len(s) /\ SubSeq(s, i, i + Len(t) - 1) = t

Contains(s, x) == \E i \in 1..Len(s) : s[i] = x

\* C3 as stated: the three consecutive elements --index-path,
\* slsk_downloads.index, --skip-existing appear in the command if and only
\* if use_database is true, and when it is false neither --index-path nor
\* --skip-existing appears in the command.
C3_Original ==
    built =>
        /\ HasConsecutive(command, DatabaseTriple) <=> opts.use_database
        /\ ~opts.use_database =>
              /\ ~Contains(command, "--index-path")
              /\ ~Contains(command, "--skip-existing")

\* The values build_command copies verbatim into the command.
SuppliedValues(o, e) ==
    Positional(o) \o <<PathArgs(e)[2]>>
    \o (IF Truthy(e.SLSK_USER) THEN <<e.SLSK_USER>> ELSE <<>>)
    \o (IF Truthy(e.SLSK_PASS) THEN <<e.SLSK_PASS>> ELSE <<>>)

\* C3 (amended): the command ends with the three consecutive elements
\* --index-path, slsk_downloads.index, --skip-existing if and only if
\* use_database is true; apart from the verbatim copies of the positional
\* argument and of the environment-supplied path, user and password,
\* --index-path and --skip-existing each occur once when use_database is
\* true and not at all when it is false.
C3_DatabasePair ==
    built =>
        /\ (/\ Len(command) >= 3
            /\ SubSeq(command, Len(command) - 2, Len(command)) = DatabaseTriple)
           <=> opts.use_database
        /\ \A f \in {"--index-path", "--skip-existing"} :
              Count(command, f) =
                  (IF opts.use_database THEN 1 ELSE 0)
                  + Count(SuppliedValues(opts, env), f)

C3_Witness ==
    /\ built
    /\ opts.use_database
    /\ Positional(opts) = <<"--skip-existing">>
    /\ Count(command, "--skip-existing") = 2
    /\ Last(command) = "--skip-existing"

(***************************************************************************)
(* Claims about the stream relay, checked under SpecRelay and FairRelay.   *)
(***************************************************************************)
\* C4: the terminal event is DONE when the subprocess's exit code is 0 or 1
\* and CRASH carrying the code for every other code, negative ones included;
\* it is emitted only after both pipes are drained and the subprocess has
\* exited; a DONE is never emitted for a code outside {0,1} and a CRASH
\* never for a code in {0,1}.
C4_TerminalByExitCode ==
    /\ \A i \in 1..Len(events) :
          /\ events[i].kind = "DONE" => plan.code \in {0, 1}
          /\ events[i].kind = "CRASH" =>
                plan.code \notin {0, 1} /\ events[i].code = plan.code
    /\ rpc = "done" =>
          /\ proc = "exited" /\ outPipe = <<>> /\ errPipe = <<>>
          /\ Last(events).kind = (IF plan.code \in {0, 1} THEN "DONE" ELSE "CRASH")

C4_Witness ==
    /\ rpc = "done"
    /\ plan.code = 1
    /\ plan.out > 0 /\ plan.err > 0
    /\ Last(events) = [kind |-> "DONE"]

\* The Line events among the first k events whose text is of the stream.
LinesOf(stream) ==
    Cardinality({i \in 1..Len(events) :
                    events[i].kind = "Line" /\ events[i].text.stream = stream})

C8_RelayTerminates == (plan.undecodable = {}) => <>(rpc = "done")

(***************************************************************************)
(* Claims about the /run handler, checked under SpecRun.                    *)
(***************************************************************************)
\* C6: a request with no free text, no uploaded file with a filename and no
\* playlist URL spawns no subprocess and opens no file, whatever its
\* toggles, and its response is exactly a red Line event, then DONE; a
\* request with at least one of the three yields no error event, spawns
\* exactly one subprocess once its response is streamed, and the command has
\* a positional argument (its second element, followed by --path).
C6_NoInputShortCircuit ==
    \A r \in Requests :
        IF /\ ~Truthy(reqs[r].input_text)
           /\ ~Truthy(reqs[r].input_file)
           /\ ~Truthy(reqs[r].spotify_playlist_url)
        THEN /\ spawned[r] = 0
             /\ opened[r] = 0
             /\ cmd[r] = <<>>
             /\ hpc[r] \in {"pending", "error", "done"}
             /\ hpc[r] = "pending" => resp[r] = <<>>
             /\ Len(resp[r]) <= 2
             /\ Len(resp[r]) >= 1 =>
                   /\ resp[r][1].kind = "Line"
                   /\ resp[r][1].color = "red"
             /\ Len(resp[r]) = 2 => resp[r][2] = [kind |-> "DONE"]
             /\ hpc[r] = "done" <=> Len(resp[r]) = 2
        ELSE /\ resp[r] = <<>>
             /\ hpc[r] \notin {"error", "done"}
             /\ spawned[r] = (IF hpc[r] \in {"running", "finished"} THEN 1 ELSE 0)
             /\ spawned[r] = 1 =>
                   /\ Len(cmd[r]) >= 3
                   /\ cmd[r][1] = executable_path
                   /\ cmd[r][2] \in
                         {reqs[r].input_text, reqs[r].spotify_playlist_url}
                         \cup SavePaths
                   /\ Truthy(cmd[r][2])
                   /\ cmd[r][3] = "--path"

C6_Witness ==
    /\ NoInput(reqs[1])
    /\ reqs[1].toggles.use_database
    /\ hpc[1] = "done"
    /\ Len(resp[1]) = 2
    /\ reqs[2].input_file = "list.csv"
    /\ ~Truthy(reqs[2].input_text)
    /\ ~Truthy(reqs[2].spotify_playlist_url)
    /\ hpc[2] = "finished"
    /\ spawned[2] = 1
    /\ cmd[2][2] = "/app/list.csv"

\* C7: concurrent requests share no mutable state: for every interleaving of
\* two requests, the input file a request's subprocess is given holds the
\* content that same request uploaded, whatever the other request does.
C7_RequestIsolation ==
    \A r \in Requests :
        (/\ hpc[r] = "finished"
         /\ Truthy(reqs[r].input_file)
         /\ cmd[r][2] = SavePath(reqs[r].input_file))
        => procInput[r] = Upload(r)

(***************************************************************************)
(* Claims about parse_slsk_json, checked under SpecParse.                   *)
(***************************************************************************)
\* The entries that were not dropped, and the (artist, album) pair of one.
KeptEntries == {i \in 1..Len(entries) : Extract(entries[i].Filename).keep}

PairOf(i) == <<Extract(entries[i].Filename).artist, Extract(entries[i].Filename).album>>

\* C9: after parse_slsk_json has processed a sequence of entries that each
\* carry a file descriptor, the result holds exactly one candidate per
\* distinct (artist, album) pair among the entries that were not dropped;
\* the candidate's file count is the number of non-dropped entries with that
\* pair, and its sample file is the (separator-normalized) filename of the
\* first of them; entries with different pairs never share a candidate.
C9_OneCandidatePerPair ==
    (ppc = "returned" /\ \A i \in 1..Len(entries) : entries[i].wellformed) =>
        LET pairs == {PairOf(i) : i \in KeptEntries}
            With(p) == {i \in KeptEntries : PairOf(i) = p}
        IN  /\ Len(parsed) = Cardinality(pairs)
            /\ \A p \in pairs :
                  \E c \in 1..Len(parsed) :
                      /\ parsed[c].artist = p[1]
                      /\ parsed[c].album = p[2]
                      /\ parsed[c].files = Cardinality(With(p))
                      /\ parsed[c].sample_file =
                            NormalizeSeparators(
                                entries[CHOOSE i \in With(p) :
                                            \A j \in With(p) : i <= j].Filename)

(***************************************************************************)
(* Claims about search_command, checked under SpecSearch.                   *)
(***************************************************************************)
Range(list) == {list[i] : i \in 1..Len(list)}

Min(a, b) == IF a < b THEN a ELSE b

\* The fields of a result that come from the candidate.
CandidateOf(r) ==
    [artist |-> r.artist, album |-> r.album, files |-> r.files,
     sample_file |-> r.sample_file, score |-> r.score]

\* C10: in a successful /search over n scored candidates, the candidates are
\* put in an order descending by score with ties broken by descending file
\* count; the returned results are the first min(10, n) of that order; art
\* resolution is invoked for those candidates only, once each, one after
\* another in that order; candidates ranked 11th or lower are neither
\* resolved nor returned; a failed search resolves nothing.
C10_TopTenResolved ==
    /\ returncode # 0 => art_calls = <<>> /\ final_results = <<>>
    /\ (returncode = 0 /\ spc \in {"resolve", "done"}) =>
        LET n == Len(parsed_results)
            k == Min(10, n)
        IN  /\ \E pattern \in ScorePatterns :
                  /\ Range(parsed_results) = Range(ScoredCandidates(pattern, n))
                  /\ Cardinality(Range(parsed_results)) = n
            /\ \A i \in 1..(n - 1) :
                  \/ parsed_results[i].score > parsed_results[i + 1].score
                  \/ /\ parsed_results[i].score = parsed_results[i + 1].score
                     /\ parsed_results[i].files >= parsed_results[i + 1].files
            /\ top_results = SubSeq(parsed_results, 1, k)
            /\ Len(art_calls) <= k
            /\ Len(final_results) = Len(art_calls)
            /\ \A i \in 1..Len(art_calls) :
                  /\ art_calls[i] = <<parsed_results[i].artist, parsed_results[i].album>>
                  /\ CandidateOf(final_results[i]) = parsed_results[i]
            /\ \A i \in (k + 1)..n :
                  /\ \A c \in 1..Len(art_calls) :
                        art_calls[c] # <<parsed_results[i].artist, parsed_results[i].album>>
                  /\ \A c \in 1..Len(final_results) :
                        CandidateOf(final_results[c]) # parsed_results[i]
            /\ spc = "done" =>
                  /\ response.status = 200
                  /\ response.results = final_results
                  /\ Len(response.results) = k
                  /\ Len(art_calls) = k

C10_Witness ==
    /\ spc = "done"
    /\ returncode = 0
    /\ Len(parsed_results) = 11
    /\ Len(response.results) = 10
    /\ Len(art_calls) = 10
    /\ \E i \in 1..9 :
          /\ response.results[i].score = response.results[i + 1].score
          /\ response.results[i].files > response.results[i + 1].files
    /\ \E i \in 1..10 : response.results[i].art_url = Placeholder
    /\ \E i \in 1..10 : response.results[i].art_url = ItunesArt

(***************************************************************************)
(* Claims about fetch_metadata and the placeholder, checked under SpecArt.  *)
(***************************************************************************)
Queried(endpoint) == \E i \in 1..Len(queries) : queries[i] = endpoint

\* The URL the album step gave: the album art when the album-art endpoint was
\* queried and answered with a match.
AlbumStepUrl == IF Queried("itunes") /\ call.itunes = "match" THEN ItunesArt ELSE None

\* The URL the artist-image endpoint has for the artist.
ArtistImageUrl == IF call.deezer = "match" THEN DeezerPicture ELSE None

\* C11: for every outcome (match, no match, non-200, network error,
\* malformed JSON) of the two metadata services, fetch_metadata never raises
\* and the request is not failed; the album-art endpoint is queried first,
\* at most once, and only when the album is non-empty and not "Unknown"; the
\* artist-image endpoint is queried, after it and at most once, if and only
\* if the album step gave no URL; the result is the album art if found, else
\* the artist image if found, else none, and in that last case the search
\* result carries the placeholder URL.
C11_ArtFallback ==
    /\ apc \notin {"raised", "failed"}
    /\ http_status # 500
    /\ Len(queries) <= 2
    /\ \A i \in 1..Len(queries) :
          /\ queries[i] = "itunes" =>
                i = 1 /\ call.album # <<>> /\ call.album # Unknown
          /\ queries[i] = "deezer" => i = Len(queries) /\ AlbumStepUrl = None
    /\ apc \in {"returned", "assigned"} =>
          /\ Queried("deezer") <=> AlbumStepUrl = None
          /\ art = IF AlbumStepUrl # None THEN AlbumStepUrl ELSE ArtistImageUrl
    /\ apc = "assigned" =>
          /\ http_status = 200
          /\ res_art_url = IF art = None THEN Placeholder ELSE art

\* Both services fail, one with a malformed body and one with a network
\* error: both were queried in order and the result carries the placeholder.
C11_Witness ==
    /\ apc = "assigned"
    /\ call.itunes = "malformed_json"
    /\ call.deezer = "network_error"
    /\ queries = <<"itunes", "deezer">>
    /\ art = None
    /\ res_art_url = Placeholder
    /\ http_status = 200

====
